---- MODULE Spec2Model ----
(***************************************************************************)
(* Parameter validators of the azure-cli network command module            *)
(* (azure/cli/command_modules/network/_validators.py).                     *)
(*                                                                         *)
(* A validator takes the argparse namespace, mutates it in place and       *)
(* either returns or raises.  Here a validator is an operator from a       *)
(* namespace to the record [ns, exc]: the namespace as the call leaves it  *)
(* (a raise keeps the mutations made before it) and the exception type     *)
(* ("ok" when the call returns).  One action per validator applies it to   *)
(* the variable namespace and appends the call to the log `trace`.         *)
(*                                                                         *)
(* Strings.  A path-like string (names, resource IDs) is the sequence of   *)
(* its '/'-separated segments: "a" is <<"a">>, "" is <<"">>, "/a/b" is     *)
(* <<"", "a", "b">>; joining with '/' is concatenation of the sequences.   *)
(* Python's None is the empty sequence, which no string splits to.         *)
(* Address prefixes, which carry the sentinel, are sequences of            *)
(* characters.  Server strings are the sequences of their '.'-separated    *)
(* parts.  File contents are sequences of bytes.                           *)
(***************************************************************************)
EXTENDS Integers, Sequences, FiniteSets, TLC

VARIABLES namespace, trace, files

vars == <<namespace, trace, files>>

(* ---------------------------------------------------------------- bounds *)

\* validator calls applied to one namespace
MaxCalls == 2

\* items of a list-valued option
MaxListLen == 2

\* bytes of the certificate file
MaxFileLen == 3

\* pieces a user-supplied address prefix is put together from
MaxPieces == 3

\* entries of --servers, and '.'-separated parts of one entry
MaxServers == 2

MaxParts == 4

(* ------------------------------------------------------- Python's values *)

None == <<>>

EmptyStr == <<"">>

\* a literal without '/'
S(x) == <<x>>

\* bool(x) for None and strings
Truthy(x) == x # None /\ x # EmptyStr

\* '{}'.format(x)
Fmt(x) == IF x = None THEN S("None") ELSE x

Return(ns) == [ns |-> ns, exc |-> "ok"]

Raise(ns, type) == [ns |-> ns, exc |-> type]

(* --------------------------------------- azure.cli.commands collaborators *)

get_subscription_id == S("sub0")

\* kw: the keyword arguments given; child_type/child_name may be missing
resource_id(kw) ==
    LET top == <<"", "subscriptions">> \o Fmt(kw.subscription)
                 \o S("resourceGroups") \o Fmt(kw.resource_group)
                 \o S("providers") \o Fmt(kw.namespace)
                 \o Fmt(kw.type) \o Fmt(kw.name)
    IN IF "child_type" \in DOMAIN kw
       THEN top \o Fmt(kw.child_type) \o Fmt(kw.child_name)
       ELSE top

\* the keyword arguments a string parses to, <<>> when it has not the shape
parse_resource_id(rid) ==
    IF /\ Len(rid) >= 9
       /\ rid[1] = "" /\ rid[2] = "subscriptions" /\ rid[4] = "resourceGroups"
       /\ rid[6] = "providers"
    THEN LET top == [subscription |-> S(rid[3]), resource_group |-> S(rid[5]),
                     namespace |-> S(rid[7]), type |-> S(rid[8]), name |-> S(rid[9])]
         IN IF Len(rid) >= 11
            THEN [subscription |-> top.subscription, resource_group |-> top.resource_group,
                  namespace |-> top.namespace, type |-> top.type, name |-> top.name,
                  child_type |-> S(rid[10]), child_name |-> S(rid[11])]
            ELSE top
    ELSE <<>>

is_valid_resource_id(rid) ==
    /\ Truthy(rid)
    /\ parse_resource_id(rid) # <<>>
    /\ resource_id(parse_resource_id(rid)) = rid

(* ------------------------------------------------- PARAMETER VALIDATORS *)

generate_lb_subproperty_id(resource_group, load_balancer_name, child_type, child_name, subscription) ==
    resource_id([subscription |-> IF Truthy(subscription) THEN subscription
                                  ELSE get_subscription_id,
                 resource_group |-> resource_group,
                 namespace |-> S("Microsoft.Network"),
                 type |-> S("loadBalancers"),
                 name |-> load_balancer_name,
                 child_type |-> child_type,
                 child_name |-> child_name])

\* the validator without its check for an ID: every value is resolved as a name
Mut_validate_inbound_nat_rule_name_or_id(ns) ==
    IF ~Truthy(ns.load_balancer_name)
    THEN Return(ns)
    ELSE Return([ns EXCEPT !.inbound_nat_rule =
             generate_lb_subproperty_id(ns.resource_group_name, ns.load_balancer_name,
                                        S("inboundNatRules"), ns.inbound_nat_rule, None)])

validate_inbound_nat_rule_name_or_id(ns) ==
    LET rule_name == ns.inbound_nat_rule
        lb_name == ns.load_balancer_name
    IN IF is_valid_resource_id(rule_name)
       THEN IF Truthy(lb_name) THEN Raise(ns, "CLIError") ELSE Return(ns)
       ELSE IF ~Truthy(lb_name)
            THEN Raise(ns, "CLIError")
            ELSE Return([ns EXCEPT !.inbound_nat_rule =
                     generate_lb_subproperty_id(ns.resource_group_name, lb_name,
                                                S("inboundNatRules"), rule_name, None)])

validate_address_pool_name_or_id(ns) ==
    LET pool_name == ns.backend_address_pool
        lb_name == ns.load_balancer_name
    IN IF is_valid_resource_id(pool_name)
       THEN IF Truthy(lb_name) THEN Raise(ns, "CLIError") ELSE Return(ns)
       ELSE IF ~Truthy(lb_name)
            THEN Raise(ns, "CLIError")
            ELSE Return([ns EXCEPT !.backend_address_pool =
                     generate_lb_subproperty_id(ns.resource_group_name, lb_name,
                                                S("backendAddressPools"), pool_name, None)])

\* the validator without its early return for subnet == ''
Mut_validate_subnet_name_or_id(ns) ==
    IF ns.virtual_network_name = None /\ ns.subnet = None
    THEN Return(ns)
    ELSE IF Truthy(ns.virtual_network_name) /\ ~Truthy(ns.subnet)
    THEN Raise(ns, "CLIError")
    ELSE LET is_id == is_valid_resource_id(ns.subnet)
         IN IF is_id /\ Truthy(ns.virtual_network_name)
            THEN Raise(ns, "ArgumentError")
            ELSE IF ~is_id /\ ~Truthy(ns.virtual_network_name)
            THEN Raise(ns, "ArgumentError")
            ELSE IF ~is_id
            THEN Return([ns EXCEPT !.subnet =
                     resource_id([subscription |-> get_subscription_id,
                                  resource_group |-> ns.resource_group_name,
                                  namespace |-> S("Microsoft.Network"),
                                  type |-> S("virtualNetworks"),
                                  name |-> ns.virtual_network_name,
                                  child_type |-> S("subnets"),
                                  child_name |-> ns.subnet])])
            ELSE Return(ns)

validate_subnet_name_or_id(ns) ==
    IF ns.virtual_network_name = None /\ ns.subnet = None
    THEN Return(ns)
    ELSE IF ns.subnet = EmptyStr
    THEN Return(ns)
    ELSE IF Truthy(ns.virtual_network_name) /\ ~Truthy(ns.subnet)
    THEN Raise(ns, "CLIError")
    ELSE LET is_id == is_valid_resource_id(ns.subnet)
         IN IF is_id /\ Truthy(ns.virtual_network_name)
            THEN Raise(ns, "ArgumentError")
            ELSE IF ~is_id /\ ~Truthy(ns.virtual_network_name)
            THEN Raise(ns, "ArgumentError")
            ELSE IF ~is_id
            THEN Return([ns EXCEPT !.subnet =
                     resource_id([subscription |-> get_subscription_id,
                                  resource_group |-> ns.resource_group_name,
                                  namespace |-> S("Microsoft.Network"),
                                  type |-> S("virtualNetworks"),
                                  name |-> ns.virtual_network_name,
                                  child_type |-> S("subnets"),
                                  child_name |-> ns.subnet])])
            ELSE Return(ns)

\* the validator without its check for an ID: an ID is resolved again
Mut_validate_public_ip_name_or_id(ns) ==
    IF Truthy(ns.public_ip_address)
    THEN Return([ns EXCEPT !.public_ip_address =
             resource_id([subscription |-> get_subscription_id,
                          resource_group |-> ns.resource_group_name,
                          namespace |-> S("Microsoft.Network"),
                          type |-> S("publicIPAddresses"),
                          name |-> ns.public_ip_address])])
    ELSE Return(ns)

validate_public_ip_name_or_id(ns) ==
    IF Truthy(ns.public_ip_address) /\ ~is_valid_resource_id(ns.public_ip_address)
    THEN Return([ns EXCEPT !.public_ip_address =
             resource_id([subscription |-> get_subscription_id,
                          resource_group |-> ns.resource_group_name,
                          namespace |-> S("Microsoft.Network"),
                          type |-> S("publicIPAddresses"),
                          name |-> ns.public_ip_address])])
    ELSE Return(ns)

validate_nsg_name_or_id(ns) ==
    IF Truthy(ns.network_security_group) /\ ~is_valid_resource_id(ns.network_security_group)
    THEN Return([ns EXCEPT !.network_security_group =
             resource_id([subscription |-> get_subscription_id,
                          resource_group |-> ns.resource_group_name,
                          namespace |-> S("Microsoft.Network"),
                          type |-> S("networkSecurityGroups"),
                          name |-> ns.network_security_group])])
    ELSE Return(ns)

(* ------------------------------------------------------------ the calls *)

\* the command is aborted by the first exception
Running == IF trace = <<>> THEN TRUE ELSE trace[Len(trace)].exc = "ok"

\* one validator call on the namespace, logged
Call(op, r) ==
    /\ Running
    /\ Len(trace) < MaxCalls
    /\ namespace' = r.ns
    /\ trace' = Append(trace, [op |-> op, before |-> namespace, after |-> r.ns,
                               exc |-> r.exc])
    /\ UNCHANGED files

Do_validate_inbound_nat_rule_name_or_id ==
    Call("validate_inbound_nat_rule_name_or_id",
         validate_inbound_nat_rule_name_or_id(namespace))

Do_validate_address_pool_name_or_id ==
    Call("validate_address_pool_name_or_id", validate_address_pool_name_or_id(namespace))

Do_validate_subnet_name_or_id ==
    Call("validate_subnet_name_or_id", validate_subnet_name_or_id(namespace))

Do_validate_public_ip_name_or_id ==
    Call("validate_public_ip_name_or_id", validate_public_ip_name_or_id(namespace))

Do_validate_nsg_name_or_id ==
    Call("validate_nsg_name_or_id", validate_nsg_name_or_id(namespace))

(* ------------------------------------------- name-or-ID: the namespaces *)

\* a child resource ID and a top-level one, of another group than the ambient one
ChildId == <<"", "subscriptions", "sub9", "resourceGroups", "rg9", "providers",
             "Microsoft.Network", "loadBalancers", "lb9", "inboundNatRules", "r9">>

TopId == <<"", "subscriptions", "sub9", "resourceGroups", "rg9", "providers",
           "Microsoft.Network", "publicIPAddresses", "ip9">>

\* what an identifier option may hold: nothing, '', a bare name, a name with a
\* '/', a path that is no resource ID, resource IDs
IdValues == {None, EmptyStr, S("n1"), <<"n1", "x">>, <<"", "subscriptions", "sub9">>,
             ChildId, TopId}

ParentValues == {None, EmptyStr, S("p1")}

NoFiles == <<>>

\* the options of the load-balancer child commands
LbChildNamespaces ==
    [inbound_nat_rule : IdValues, backend_address_pool : IdValues,
     load_balancer_name : ParentValues, resource_group_name : {S("rg1")},
     subnet : {None}, virtual_network_name : {None}, public_ip_address : {None},
     network_security_group : {None}]

\* the options of the commands that take a subnet, a public IP and an NSG
NetNamespaces ==
    [inbound_nat_rule : {None}, backend_address_pool : {None},
     load_balancer_name : {None}, resource_group_name : {S("rg1")},
     subnet : IdValues, virtual_network_name : ParentValues,
     public_ip_address : IdValues, network_security_group : {None, S("n1"), TopId}]

Init ==
    /\ namespace \in LbChildNamespaces \cup NetNamespaces
    /\ trace = <<>>
    /\ files = NoFiles

Next ==
    \/ Do_validate_inbound_nat_rule_name_or_id
    \/ Do_validate_address_pool_name_or_id
    \/ Do_validate_subnet_name_or_id
    \/ Do_validate_public_ip_name_or_id
    \/ Do_validate_nsg_name_or_id

Spec == Init /\ [][Next]_vars

(* ------------------------------------------------ name-or-ID: the claims *)

NameOrIdValidators ==
    {"validate_inbound_nat_rule_name_or_id", "validate_address_pool_name_or_id",
     "validate_subnet_name_or_id", "validate_public_ip_name_or_id",
     "validate_nsg_name_or_id"}

\* the validators that need the name of a parent resource
ParentValidators ==
    {"validate_inbound_nat_rule_name_or_id", "validate_address_pool_name_or_id",
     "validate_subnet_name_or_id"}

IdField(v) ==
    CASE v = "validate_inbound_nat_rule_name_or_id" -> "inbound_nat_rule"
      [] v = "validate_address_pool_name_or_id" -> "backend_address_pool"
      [] v = "validate_subnet_name_or_id" -> "subnet"
      [] v = "validate_public_ip_name_or_id" -> "public_ip_address"
      [] v = "validate_nsg_name_or_id" -> "network_security_group"

ParentField(v) ==
    IF v = "validate_subnet_name_or_id" THEN "virtual_network_name"
    ELSE "load_balancer_name"

\* the exception type a validator uses when an ID comes with the parent's name
OmitParentError(v) ==
    IF v = "validate_subnet_name_or_id" THEN "ArgumentError" ELSE "CLIError"

\* a non-empty name without '/'
BareName(x) == Len(x) = 1 /\ x # EmptyStr

\* the documented path template, written out
Template(v, ns) ==
    LET head == <<"", "subscriptions", "sub0", "resourceGroups">>
                  \o ns.resource_group_name \o <<"providers", "Microsoft.Network">>
    IN CASE v = "validate_inbound_nat_rule_name_or_id" ->
              head \o <<"loadBalancers">> \o ns.load_balancer_name
                   \o <<"inboundNatRules">> \o ns.inbound_nat_rule
         [] v = "validate_address_pool_name_or_id" ->
              head \o <<"loadBalancers">> \o ns.load_balancer_name
                   \o <<"backendAddressPools">> \o ns.backend_address_pool
         [] v = "validate_subnet_name_or_id" ->
              head \o <<"virtualNetworks">> \o ns.virtual_network_name
                   \o <<"subnets">> \o ns.subnet
         [] v = "validate_public_ip_name_or_id" ->
              head \o <<"publicIPAddresses">> \o ns.public_ip_address
         [] v = "validate_nsg_name_or_id" ->
              head \o <<"networkSecurityGroups">> \o ns.network_security_group

CompleteContext(v, ns) ==
    /\ Truthy(ns.resource_group_name)
    /\ v \in ParentValidators => Truthy(ns[ParentField(v)])

\* C1 as claimed: a name-or-ID validator given a well-formed resource ID returns
\* without error and leaves the identifier field as it was, whatever the other
\* fields hold.
C1_Original ==
    \A i \in 1..Len(trace) :
        LET c == trace[i] IN
        (c.op \in NameOrIdValidators /\ is_valid_resource_id(c.before[IdField(c.op)]))
        => /\ c.exc = "ok"
           /\ c.after[IdField(c.op)] = c.before[IdField(c.op)]

\* C1 as amended: a name-or-ID validator given a well-formed resource ID leaves the
\* identifier field (and the whole namespace) as it was; it returns without error
\* unless the validator is one that takes a parent name (load-balancer name,
\* virtual-network name) and that name is set (non-empty), and then it raises
\* (CLIError for NAT rules and address pools, ArgumentError for subnets).
C1_IdPassesThrough ==
    \A i \in 1..Len(trace) :
        LET c == trace[i] IN
        (c.op \in NameOrIdValidators /\ is_valid_resource_id(c.before[IdField(c.op)]))
        => /\ c.after = c.before
           /\ c.exc = IF c.op \in ParentValidators /\ Truthy(c.before[ParentField(c.op)])
                      THEN OmitParentError(c.op)
                      ELSE "ok"

\* an ID given without a parent name passed through, and one given with it refused
C1_Witness ==
    /\ Len(trace) = 2
    /\ trace[1].op = "validate_public_ip_name_or_id"
    /\ is_valid_resource_id(trace[1].before.public_ip_address)
    /\ trace[1].exc = "ok"
    /\ trace[2].op = "validate_subnet_name_or_id"
    /\ is_valid_resource_id(trace[2].before.subnet)
    /\ Truthy(trace[2].before.virtual_network_name)
    /\ trace[2].exc = "ArgumentError"

\* C2 as claimed: a name-or-ID validator given a bare name and complete parent
\* context succeeds and writes the identifier of the path template, and a second
\* application to the result succeeds and changes nothing.
C2_Original ==
    \A i \in 1..Len(trace) :
        LET c == trace[i] IN
        (/\ c.op \in NameOrIdValidators
         /\ BareName(c.before[IdField(c.op)])
         /\ CompleteContext(c.op, c.before))
        => /\ c.exc = "ok"
           /\ c.after = [c.before EXCEPT ![IdField(c.op)] = Template(c.op, c.before)]
           /\ (i < Len(trace) /\ trace[i + 1].op = c.op)
              => /\ trace[i + 1].exc = "ok"
                 /\ trace[i + 1].after = trace[i + 1].before

\* C2 as amended: a name-or-ID validator given a bare name (non-empty, without '/')
\* and complete parent context succeeds and writes the identifier of the path
\* template, changing no other field; a second application to the result changes
\* nothing, and it succeeds for the public-IP and NSG validators while for the
\* NAT-rule, address-pool and subnet validators, whose parent name is still set, it
\* raises (CLIError, CLIError, ArgumentError).
C2_ResolveThenReapply ==
    \A i \in 1..Len(trace) :
        LET c == trace[i] IN
        (/\ c.op \in NameOrIdValidators
         /\ BareName(c.before[IdField(c.op)])
         /\ CompleteContext(c.op, c.before))
        => /\ c.exc = "ok"
           /\ c.after = [c.before EXCEPT ![IdField(c.op)] = Template(c.op, c.before)]
           /\ (i < Len(trace) /\ trace[i + 1].op = c.op)
              => /\ trace[i + 1].after = trace[i + 1].before
                 /\ trace[i + 1].exc = IF c.op \in ParentValidators
                                       THEN OmitParentError(c.op)
                                       ELSE "ok"

\* a bare public-IP name was resolved and the validator applied again
C2_Witness ==
    /\ Len(trace) >= 2
    /\ trace[1].op = "validate_public_ip_name_or_id"
    /\ trace[2].op = "validate_public_ip_name_or_id"
    /\ BareName(trace[1].before.public_ip_address)
    /\ trace[2].exc = "ok"
    /\ trace[2].after.public_ip_address = Template(trace[1].op, trace[1].before)

\* C3 as claimed: a validator that needs a parent name, given a non-empty bare name
\* while the parent name is absent, raises CLIError and leaves the identifier field
\* holding the bare name.
C3_Claim ==
    \A i \in 1..Len(trace) :
        LET c == trace[i] IN
        (/\ c.op \in ParentValidators
         /\ BareName(c.before[IdField(c.op)])
         /\ c.before[ParentField(c.op)] = None)
        => /\ c.exc = "CLIError"
           /\ c.after[IdField(c.op)] = c.before[IdField(c.op)]

\* C5: validate_subnet_name_or_id over subnet in {absent, '', name, ID} and
\* virtual-network name in {absent, '', set}: an ID with a vnet name raises; a vnet
\* name with no subnet raises; both absent is a no-op; subnet '' is a no-op whatever
\* the vnet name; a subnet name with a vnet name succeeds and resolves the subnet;
\* every no-op and every raise leaves the whole namespace as it was.
C5_SubnetCases ==
    \A i \in 1..Len(trace) :
        LET c == trace[i]
            subnet == c.before.subnet
            vnet == c.before.virtual_network_name
        IN c.op = "validate_subnet_name_or_id" =>
           /\ (is_valid_resource_id(subnet) /\ Truthy(vnet))
              => (c.exc # "ok" /\ c.after = c.before)
           /\ (subnet = None /\ Truthy(vnet)) => (c.exc # "ok" /\ c.after = c.before)
           /\ (subnet = None /\ vnet = None) => (c.exc = "ok" /\ c.after = c.before)
           /\ subnet = EmptyStr => (c.exc = "ok" /\ c.after = c.before)
           /\ (Truthy(subnet) /\ ~is_valid_resource_id(subnet) /\ Truthy(vnet))
              => /\ c.exc = "ok"
                 /\ c.after = [c.before EXCEPT !.subnet = Template(c.op, c.before)]
           /\ c.exc # "ok" => c.after = c.before

\* subnet '' with a vnet name set was a no-op
C5_Witness ==
    /\ trace # <<>>
    /\ trace[1].op = "validate_subnet_name_or_id"
    /\ trace[1].before.subnet = EmptyStr
    /\ Truthy(trace[1].before.virtual_network_name)
    /\ trace[1].exc = "ok"

(* ----------------------------------------------- list-valued resolution *)

\* What a list-valued option holds: None, a single string, a list of strings, and,
\* once validated, a list of {'id': ...} objects.
NoneVal == [kind |-> "none"]

StrVal(s) == [kind |-> "str", v |-> s]

ListVal(items) == [kind |-> "list", items |-> items]

DictsVal(items) == [kind |-> "dicts", items |-> items]

\* bool(raw)
TruthyVal(raw) ==
    CASE raw.kind = "none" -> FALSE
      [] raw.kind = "str" -> Truthy(raw.v)
      [] OTHER -> raw.items # <<>>

\* the loop over the items left: [raised, result], raised at the first name that
\* cannot be resolved
RECURSIVE lb_id_list_loop(_, _, _, _, _, _)
lb_id_list_loop(ns, child_type, subscription, lb_name, raw, result) ==
    IF raw = <<>>
    THEN [raised |-> FALSE, result |-> result]
    ELSE LET item == Head(raw) IN
         IF is_valid_resource_id(item)
         THEN lb_id_list_loop(ns, child_type, subscription, lb_name, Tail(raw),
                              Append(result, [id |-> item]))
         ELSE IF ~Truthy(lb_name)
         THEN [raised |-> TRUE, result |-> result]
         ELSE lb_id_list_loop(ns, child_type, subscription, lb_name, Tail(raw),
                  Append(result,
                         [id |-> generate_lb_subproperty_id(ns.resource_group_name, lb_name,
                                                            child_type, item, subscription)]))

\* the loop where a name that cannot be resolved is dropped instead of refused
RECURSIVE Mut_lb_id_list_loop(_, _, _, _, _, _)
Mut_lb_id_list_loop(ns, child_type, subscription, lb_name, raw, result) ==
    IF raw = <<>>
    THEN [raised |-> FALSE, result |-> result]
    ELSE LET item == Head(raw) IN
         IF is_valid_resource_id(item)
         THEN Mut_lb_id_list_loop(ns, child_type, subscription, lb_name, Tail(raw),
                                  Append(result, [id |-> item]))
         ELSE IF ~Truthy(lb_name)
         THEN Mut_lb_id_list_loop(ns, child_type, subscription, lb_name, Tail(raw), result)
         ELSE Mut_lb_id_list_loop(ns, child_type, subscription, lb_name, Tail(raw),
                  Append(result,
                         [id |-> generate_lb_subproperty_id(ns.resource_group_name, lb_name,
                                                            child_type, item, subscription)]))

Mut_generate_lb_id_list_from_names_or_ids(ns, prop, child_type) ==
    LET raw == ns[prop] IN
    IF ~TruthyVal(raw)
    THEN Return(ns)
    ELSE IF raw.kind = "dicts"
    THEN Raise(ns, "TypeError")
    ELSE LET items == IF raw.kind = "list" THEN raw.items ELSE <<raw.v>>
             result == Mut_lb_id_list_loop(ns, child_type, get_subscription_id,
                                           ns.load_balancer_name, items, <<>>)
         IN Return([ns EXCEPT ![prop] = DictsVal(result.result)])

\* An item that is no string (a second application meets {'id': ...} objects) is
\* refused by is_valid_resource_id's pattern match with a TypeError.
generate_lb_id_list_from_names_or_ids(ns, prop, child_type) ==
    LET raw == ns[prop] IN
    IF ~TruthyVal(raw)
    THEN Return(ns)
    ELSE IF raw.kind = "dicts"
    THEN Raise(ns, "TypeError")
    ELSE LET items == IF raw.kind = "list" THEN raw.items ELSE <<raw.v>>
             result == lb_id_list_loop(ns, child_type, get_subscription_id,
                                       ns.load_balancer_name, items, <<>>)
         IN IF result.raised
            THEN Raise(ns, "CLIError")
            ELSE Return([ns EXCEPT ![prop] = DictsVal(result.result)])

validate_inbound_nat_rule_id_list(ns) ==
    generate_lb_id_list_from_names_or_ids(ns, "load_balancer_inbound_nat_rule_ids",
                                          S("inboundNatRules"))

validate_address_pool_id_list(ns) ==
    generate_lb_id_list_from_names_or_ids(ns, "load_balancer_backend_address_pool_ids",
                                          S("backendAddressPools"))

Do_validate_inbound_nat_rule_id_list ==
    Call("validate_inbound_nat_rule_id_list", validate_inbound_nat_rule_id_list(namespace))

Do_validate_address_pool_id_list ==
    Call("validate_address_pool_id_list", validate_address_pool_id_list(namespace))

RECURSIVE SeqsUpTo(_, _)
\* the sequences over S of length at most n
SeqsUpTo(X, n) ==
    IF n = 0 THEN {<<>>}
    ELSE LET shorter == SeqsUpTo(X, n - 1)
         IN shorter \cup {Append(q, x) : q \in shorter, x \in X}

ListItems == {S("n1"), S("n2"), EmptyStr, ChildId}

ListValues ==
    {NoneVal} \cup {StrVal(s) : s \in ListItems}
              \cup {ListVal(q) : q \in SeqsUpTo(ListItems, MaxListLen)}

InitList ==
    /\ namespace \in [load_balancer_inbound_nat_rule_ids : ListValues,
                      load_balancer_backend_address_pool_ids : ListValues,
                      load_balancer_name : ParentValues,
                      resource_group_name : {S("rg1")}]
    /\ trace = <<>>
    /\ files = NoFiles

NextList ==
    \/ Do_validate_inbound_nat_rule_id_list
    \/ Do_validate_address_pool_id_list

SpecList == InitList /\ [][NextList]_vars

ListValidators == {"validate_inbound_nat_rule_id_list", "validate_address_pool_id_list"}

ListField(v) ==
    IF v = "validate_inbound_nat_rule_id_list"
    THEN "load_balancer_inbound_nat_rule_ids"
    ELSE "load_balancer_backend_address_pool_ids"

ListChildType(v) ==
    IF v = "validate_inbound_nat_rule_id_list" THEN "inboundNatRules"
    ELSE "backendAddressPools"

\* C4: a list validator on a non-empty input (a single value counts as a list of
\* one) either succeeds, and then the field holds, in the input's order and length,
\* {'id': r_i} with r_i the i-th input if it is a resource ID and else the identifier
\* built from it under the load balancer; or some element is a name while the
\* load-balancer name is absent, and then it raises CLIError and the field holds the
\* original input; an empty or absent field is left as it was.
C4_ListResolution ==
    \A k \in 1..Len(trace) :
        LET c == trace[k]
            raw == c.before[ListField(c.op)]
            lb == c.before.load_balancer_name
            items == IF raw.kind = "str" THEN <<raw.v>> ELSE raw.items
            built(item) ==
                <<"", "subscriptions", "sub0", "resourceGroups">>
                  \o c.before.resource_group_name
                  \o <<"providers", "Microsoft.Network", "loadBalancers">> \o lb
                  \o <<ListChildType(c.op)>> \o item
        IN (c.op \in ListValidators /\ raw.kind # "dicts") =>
           IF ~TruthyVal(raw)
           THEN c.exc = "ok" /\ c.after = c.before
           ELSE IF \E i \in 1..Len(items) : ~is_valid_resource_id(items[i]) /\ ~Truthy(lb)
           THEN c.exc = "CLIError" /\ c.after = c.before
           ELSE /\ c.exc = "ok"
                /\ c.after =
                     [c.before EXCEPT ![ListField(c.op)] =
                         DictsVal([i \in 1..Len(items) |->
                                     [id |-> IF is_valid_resource_id(items[i])
                                             THEN items[i] ELSE built(items[i])]])]

\* a list of a name and an ID was resolved, in order
C4_Witness ==
    \E k \in 1..Len(trace) :
        LET c == trace[k]
            raw == c.before[ListField(c.op)]
        IN /\ c.op \in ListValidators
           /\ raw = ListVal(<<S("n1"), ChildId>>)
           /\ c.exc = "ok"
           /\ c.after[ListField(c.op)].items[1].id[11] = "n1"
           /\ c.after[ListField(c.op)].items[2].id = ChildId

(* ------------------------------------------- subnet against public IP *)

\* the validator that sets the type for a subnet and forgets to refuse a public IP
Mut_validate_public_ip_type(ns) ==
    LET ns1 == IF Truthy(ns.subnet)
               THEN [ns EXCEPT !.public_ip_address_type = S("none")]
               ELSE ns
    IN IF /\ Truthy(ns1.public_ip_address)
          /\ Truthy(ns1.public_ip_dns_name)
          /\ ns1.public_ip_address_type # S("new")
       THEN Raise(ns1, "ArgumentError")
       ELSE Return(ns1)

\* ns1: the namespace after the first if; the raise inside it keeps its assignment
validate_public_ip_type(ns) ==
    LET ns1 == IF Truthy(ns.subnet)
               THEN [ns EXCEPT !.public_ip_address_type = S("none")]
               ELSE ns
    IN IF Truthy(ns.subnet) /\ Truthy(ns.public_ip_address)
       THEN Raise(ns1, "ArgumentError")
       ELSE IF /\ Truthy(ns1.public_ip_address)
               /\ Truthy(ns1.public_ip_dns_name)
               /\ ns1.public_ip_address_type # S("new")
       THEN Raise(ns1, "ArgumentError")
       ELSE Return(ns1)

process_lb_create_namespace(ns) ==
    LET ns1 == IF Truthy(ns.public_ip_dns_name)
               THEN [ns EXCEPT !.dns_name_type = S("new")]
               ELSE ns
    IN IF Truthy(ns1.subnet) /\ Truthy(ns1.public_ip_address)
       THEN Raise(ns1, "ArgumentError")
       ELSE Return(ns1)

Do_validate_public_ip_type ==
    Call("validate_public_ip_type", validate_public_ip_type(namespace))

Do_process_lb_create_namespace ==
    Call("process_lb_create_namespace", process_lb_create_namespace(namespace))

\* the options of load-balancer creation
InitLbCreate ==
    /\ namespace \in [subnet : {None, EmptyStr, S("n1"), ChildId},
                      virtual_network_name : ParentValues,
                      public_ip_address : {None, EmptyStr, S("n1"), TopId},
                      public_ip_address_type : {S("new"), S("existing"), S("none")},
                      public_ip_dns_name : {None, S("dns1")},
                      dns_name_type : {S("none")},
                      resource_group_name : {S("rg1")}]
    /\ trace = <<>>
    /\ files = NoFiles

NextLbCreate ==
    \/ Do_validate_subnet_name_or_id
    \/ Do_validate_public_ip_name_or_id
    \/ Do_validate_public_ip_type
    \/ Do_process_lb_create_namespace

SpecLbCreate == InitLbCreate /\ [][NextLbCreate]_vars

ExclusionValidators == {"validate_public_ip_type", "process_lb_create_namespace"}

\* C8: with subnet and public_ip_address both set, validate_public_ip_type and
\* process_lb_create_namespace each raise ArgumentError; with subnet set and
\* public_ip_address not, validate_public_ip_type returns and leaves
\* public_ip_address_type 'none'; so once one of the two has run and no call has
\* raised, subnet and public_ip_address are not both set.
C8_SubnetExcludesPublicIp ==
    /\ \A i \in 1..Len(trace) :
           LET c == trace[i] IN
           /\ (/\ c.op \in ExclusionValidators
               /\ Truthy(c.before.subnet) /\ Truthy(c.before.public_ip_address))
              => c.exc = "ArgumentError"
           /\ (/\ c.op = "validate_public_ip_type"
               /\ Truthy(c.before.subnet) /\ ~Truthy(c.before.public_ip_address))
              => /\ c.exc = "ok"
                 /\ c.after = [c.before EXCEPT !.public_ip_address_type = S("none")]
    /\ (Running /\ \E i \in 1..Len(trace) : trace[i].op \in ExclusionValidators)
       => ~(Truthy(namespace.subnet) /\ Truthy(namespace.public_ip_address))

\* a subnet name was resolved and validate_public_ip_type then forced the type,
\* which was not 'none', to 'none'
C8_Witness ==
    /\ Len(trace) = 2
    /\ trace[1].op = "validate_subnet_name_or_id"
    /\ trace[2].op = "validate_public_ip_type"
    /\ trace[2].exc = "ok"
    /\ is_valid_resource_id(trace[2].before.subnet)
    /\ trace[2].before.public_ip_address_type = S("new")
    /\ namespace.public_ip_address_type = S("none")

(* --------------------------------------------------- private IP address *)

validate_private_ip_address(ns) ==
    IF Truthy(ns.private_ip_address)
    THEN Return([ns EXCEPT !.private_ip_address_allocation = S("static")])
    ELSE Return(ns)

\* the namespace processor with the two allocation modes exchanged
Mut_process_app_gateway_namespace(ns) ==
    LET ns1 == IF Truthy(ns.public_ip)
               THEN [ns EXCEPT !.frontend_type = S("publicIp")]
               ELSE [ns EXCEPT !.frontend_type = S("privateIp"),
                               !.private_ip_address_allocation =
                                   IF Truthy(ns.private_ip_address)
                                   THEN S("dynamic") ELSE S("static")]
    IN IF ~Truthy(ns1.public_ip_type)
       THEN Return([ns1 EXCEPT !.public_ip_type = S("none")])
       ELSE Return(ns1)

process_app_gateway_namespace(ns) ==
    LET ns1 == IF Truthy(ns.public_ip)
               THEN [ns EXCEPT !.frontend_type = S("publicIp")]
               ELSE [ns EXCEPT !.frontend_type = S("privateIp"),
                               !.private_ip_address_allocation =
                                   IF Truthy(ns.private_ip_address)
                                   THEN S("static") ELSE S("dynamic")]
    IN IF ~Truthy(ns1.public_ip_type)
       THEN Return([ns1 EXCEPT !.public_ip_type = S("none")])
       ELSE Return(ns1)

Do_validate_private_ip_address ==
    Call("validate_private_ip_address", validate_private_ip_address(namespace))

Do_process_app_gateway_namespace ==
    Call("process_app_gateway_namespace", process_app_gateway_namespace(namespace))

\* the options of application-gateway creation
InitAppGateway ==
    /\ namespace \in [private_ip_address : {None, EmptyStr, S("10.0.0.4")},
                      private_ip_address_allocation : {None, S("dynamic"), S("static")},
                      public_ip : {None, EmptyStr, S("pip1")},
                      public_ip_type : {None, S("new"), S("existing")},
                      frontend_type : {None}]
    /\ trace = <<>>
    /\ files = NoFiles

NextAppGateway ==
    \/ Do_validate_private_ip_address
    \/ Do_process_app_gateway_namespace

SpecAppGateway == InitAppGateway /\ [][NextAppGateway]_vars

\* C10 as claimed: with private_ip_address set, private_ip_address_allocation is
\* 'static' after validate_private_ip_address and after
\* process_app_gateway_namespace, whatever it held and whether or not public_ip is
\* set; with private_ip_address not set validate_private_ip_address changes nothing.
C10_Original ==
    \A i \in 1..Len(trace) :
        LET c == trace[i] IN
        /\ (/\ c.op \in {"validate_private_ip_address", "process_app_gateway_namespace"}
            /\ Truthy(c.before.private_ip_address))
           => c.exc = "ok" /\ c.after.private_ip_address_allocation = S("static")
        /\ (c.op = "validate_private_ip_address" /\ ~Truthy(c.before.private_ip_address))
           => c.exc = "ok" /\ c.after = c.before

\* C10 as amended: with private_ip_address set, private_ip_address_allocation is
\* 'static' after validate_private_ip_address, and after
\* process_app_gateway_namespace when public_ip is not set; when public_ip is set
\* process_app_gateway_namespace leaves private_ip_address_allocation as it was;
\* with private_ip_address not set validate_private_ip_address changes nothing.
C10_StaticAllocation ==
    \A i \in 1..Len(trace) :
        LET c == trace[i] IN
        /\ (c.op = "validate_private_ip_address" /\ Truthy(c.before.private_ip_address))
           => c.exc = "ok" /\ c.after.private_ip_address_allocation = S("static")
        /\ (c.op = "process_app_gateway_namespace" /\ Truthy(c.before.private_ip_address))
           => /\ c.exc = "ok"
              /\ c.after.private_ip_address_allocation =
                    IF Truthy(c.before.public_ip)
                    THEN c.before.private_ip_address_allocation
                    ELSE S("static")
        /\ (c.op = "validate_private_ip_address" /\ ~Truthy(c.before.private_ip_address))
           => c.exc = "ok" /\ c.after = c.before

\* a private frontend with an address given: 'dynamic' became 'static'
C10_Witness ==
    /\ trace # <<>>
    /\ trace[1].op = "process_app_gateway_namespace"
    /\ Truthy(trace[1].before.private_ip_address)
    /\ ~Truthy(trace[1].before.public_ip)
    /\ trace[1].before.private_ip_address_allocation = S("dynamic")
    /\ trace[1].after.private_ip_address_allocation = S("static")

(* ----------------------------------------------------------- certificate *)

\* An int option is None or the number boxed in a sequence.
IntVal(n) == <<n>>

\* bool(x) for None and ints
TruthyInt(x) == x # None /\ x # IntVal(0)

B64Alphabet ==
    <<"A", "B", "C", "D", "E", "F", "G", "H", "I", "J", "K", "L", "M", "N", "O", "P",
      "Q", "R", "S", "T", "U", "V", "W", "X", "Y", "Z", "a", "b", "c", "d", "e", "f",
      "g", "h", "i", "j", "k", "l", "m", "n", "o", "p", "q", "r", "s", "t", "u", "v",
      "w", "x", "y", "z", "0", "1", "2", "3", "4", "5", "6", "7", "8", "9", "+", "/">>

B64Char(i) == B64Alphabet[i + 1]

RECURSIVE b64encode(_)
\* base64.b64encode: the characters for a sequence of bytes
b64encode(bytes) ==
    IF bytes = <<>>
    THEN <<>>
    ELSE IF Len(bytes) = 1
    THEN <<B64Char(bytes[1] \div 4), B64Char((bytes[1] % 4) * 16), "=", "=">>
    ELSE IF Len(bytes) = 2
    THEN <<B64Char(bytes[1] \div 4),
           B64Char((bytes[1] % 4) * 16 + bytes[2] \div 16),
           B64Char((bytes[2] % 16) * 4), "=">>
    ELSE <<B64Char(bytes[1] \div 4),
           B64Char((bytes[1] % 4) * 16 + bytes[2] \div 16),
           B64Char((bytes[2] % 16) * 4 + bytes[3] \div 64),
           B64Char(bytes[3] % 64)>>
         \o b64encode(SubSeq(bytes, 4, Len(bytes)))

\* the validator that sets the default port whether or not one was given
Mut_validate_cert(ns, fs) ==
    IF ~Truthy(ns.cert_data) /\ ~Truthy(ns.cert_password)
    THEN Return([ns EXCEPT !.http_listener_protocol = S("http"),
                           !.frontend_port = IntVal(80)])
    ELSE IF ~(Truthy(ns.cert_data) /\ Truthy(ns.cert_password))
    THEN Raise(ns, "ArgumentError")
    ELSE IF ns.cert_data \notin DOMAIN fs
    THEN Raise(ns, "IOError")
    ELSE Return([ns EXCEPT !.cert_data = b64encode(fs[ns.cert_data]),
                           !.http_listener_protocol = S("https"),
                           !.frontend_port = IntVal(443)])

\* fs: the files open() finds, path -> bytes.  base64 output is ASCII, so
\* decode('utf-8') gives its characters and never raises.  (The text of an empty
\* file is '', here <<>>: like None, it is only ever read for its truth value.)
validate_cert(ns, fs) ==
    IF ~Truthy(ns.cert_data) /\ ~Truthy(ns.cert_password)
    THEN Return([ns EXCEPT !.http_listener_protocol = S("http"),
                           !.frontend_port = IF ~TruthyInt(@) THEN IntVal(80) ELSE @])
    ELSE IF ~(Truthy(ns.cert_data) /\ Truthy(ns.cert_password))
    THEN Raise(ns, "ArgumentError")
    ELSE IF ns.cert_data \notin DOMAIN fs
    THEN Raise(ns, "IOError")
    ELSE Return([ns EXCEPT !.cert_data = b64encode(fs[ns.cert_data]),
                           !.http_listener_protocol = S("https"),
                           !.frontend_port = IF ~TruthyInt(@) THEN IntVal(443) ELSE @])

Do_validate_cert == Call("validate_cert", validate_cert(namespace, files))

CertPath == S("cert.pfx")

MissingPath == S("missing.pfx")

Bytes == {0, 77, 255}

\* the options of application-gateway creation that validate_cert reads, and a
\* certificate file of any content
InitCert ==
    /\ namespace \in [cert_data : {None, EmptyStr, CertPath, MissingPath},
                      cert_password : {None, EmptyStr, S("pw")},
                      frontend_port : {None, IntVal(0), IntVal(8443)},
                      http_listener_protocol : {None, S("https")}]
    /\ trace = <<>>
    /\ files \in [{CertPath} -> SeqsUpTo(Bytes, MaxFileLen)]

NextCert == Do_validate_cert

SpecCert == InitCert /\ [][NextCert]_vars

\* the value of a base64 character
B64Value(ch) == CHOOSE i \in 0..63 : B64Alphabet[i + 1] = ch

RECURSIVE B64Decode(_)
\* the bytes a base64 text stands for, read four characters at a time
B64Decode(text) ==
    IF text = <<>>
    THEN <<>>
    ELSE LET a == B64Value(text[1])
             b == B64Value(text[2])
         IN IF text[3] = "="
            THEN <<a * 4 + b \div 16>>
            ELSE LET c == B64Value(text[3]) IN
                 IF text[4] = "="
                 THEN <<a * 4 + b \div 16, (b % 16) * 16 + c \div 4>>
                 ELSE <<a * 4 + b \div 16, (b % 16) * 16 + c \div 4,
                        (c % 4) * 64 + B64Value(text[4])>>
                      \o B64Decode(SubSeq(text, 5, Len(text)))

SPECIFIED_SENTINEL == <<"_", "_", "S", "E", "T", "_", "_">>

\* s.startswith(t)
StartsWith(s, t) == Len(s) >= Len(t) /\ SubSeq(s, 1, Len(t)) = t

\* t in s
Contains(s, t) == \E i \in 0..(Len(s) - Len(t)) : SubSeq(s, i + 1, i + Len(t)) = t

RECURSIVE str_replace(_, _, _)
\* s.replace(old, new) for a non-empty old: one pass from the left over the
\* non-overlapping occurrences
str_replace(s, old, new) ==
    IF Len(s) < Len(old)
    THEN s
    ELSE IF StartsWith(s, old)
    THEN new \o str_replace(SubSeq(s, Len(old) + 1, Len(s)), old, new)
    ELSE <<Head(s)>> \o str_replace(Tail(s), old, new)

\* both fields are stripped before the check that raises
validate_address_prefixes(ns) ==
    LET subnet_prefix_set == Contains(ns.subnet_address_prefix, SPECIFIED_SENTINEL)
        vnet_prefix_set == Contains(ns.vnet_address_prefix, SPECIFIED_SENTINEL)
        ns1 == [ns EXCEPT
                  !.subnet_address_prefix = str_replace(@, SPECIFIED_SENTINEL, <<>>),
                  !.vnet_address_prefix = str_replace(@, SPECIFIED_SENTINEL, <<>>)]
    IN IF ns.subnet_type # S("new") /\ (subnet_prefix_set \/ vnet_prefix_set)
       THEN Raise(ns1, "CLIError")
       ELSE Return(ns1)

\* argparse calls the action for an option given on the command line
markSpecifiedAction(args, dest, values) ==
    [args EXCEPT ![dest] = SPECIFIED_SENTINEL \o values]

Do_validate_address_prefixes ==
    Call("validate_address_prefixes", validate_address_prefixes(namespace))

\* what the user may type after the option: any text put together from these
Pieces == {<<"1">>, <<"_", "_", "S", "E">>, <<"T", "_", "_">>, SPECIFIED_SENTINEL}

RECURSIVE Concatenations(_, _)
\* the concatenations of at most n elements of X
Concatenations(X, n) ==
    IF n = 0 THEN {<<>>}
    ELSE LET shorter == Concatenations(X, n - 1)
         IN shorter \cup {q \o x : q \in shorter, x \in X}

\* parsing precedes validation
Do_markSpecifiedAction ==
    /\ trace = <<>>
    /\ \E dest \in {"subnet_address_prefix", "vnet_address_prefix"},
          values \in Concatenations(Pieces, MaxPieces) :
          namespace' = markSpecifiedAction(namespace, dest, values)
    /\ UNCHANGED <<trace, files>>

DefaultPrefix == <<"1", "0">>

\* the namespace with the options' defaults
InitPrefixes ==
    /\ namespace \in [subnet_address_prefix : {DefaultPrefix},
                      vnet_address_prefix : {DefaultPrefix},
                      subnet_type : {S("new"), S("existing"), S("none")}]
    /\ trace = <<>>
    /\ files = NoFiles

NextPrefixes ==
    \/ Do_markSpecifiedAction
    \/ Do_validate_address_prefixes

SpecPrefixes == InitPrefixes /\ [][NextPrefixes]_vars

\* C7: after validate_address_prefixes, whether it returns or raises, neither
\* prefix field contains the sentinel; and it raises exactly when subnet_type is
\* not 'new' and one of the two fields contained the sentinel.
C7_Claim ==
    \A i \in 1..Len(trace) :
        LET c == trace[i] IN
        c.op = "validate_address_prefixes" =>
           /\ ~Contains(c.after.subnet_address_prefix, SPECIFIED_SENTINEL)
           /\ ~Contains(c.after.vnet_address_prefix, SPECIFIED_SENTINEL)
           /\ (c.exc # "ok") <=>
                 /\ c.before.subnet_type # S("new")
                 /\ \/ Contains(c.before.subnet_address_prefix, SPECIFIED_SENTINEL)
                    \/ Contains(c.before.vnet_address_prefix, SPECIFIED_SENTINEL)

(* --------------------------------------------------------------- servers *)

\* A server string is the sequence of its '.'-separated parts; a part is a decimal
\* numeral, given by its value, or a label that is no numeral.
Dec(n) == [kind |-> "dec", n |-> n]

Label == [kind |-> "label", n |-> 0]

RECURSIVE Pow256(_)
Pow256(k) == IF k = 0 THEN 1 ELSE 256 * Pow256(k - 1)

\* socket.inet_aton returns (TRUE) or raises socket.error (FALSE): one to four
\* numbers, all but the last at most 255, the last filling the bytes that are left
inet_aton(item) ==
    /\ Len(item) \in 1..4
    /\ \A i \in 1..Len(item) : item[i].kind = "dec"
    /\ \A i \in 1..(Len(item) - 1) : item[i].n <= 255
    /\ item[Len(item)].n \div 256 < Pow256(4 - Len(item))

\* The option holds None or a list of strings and, once validated, a list of
\* objects; inet_aton of an object raises a TypeError, which is not caught.
validate_servers(ns) ==
    LET items == IF TruthyVal(ns.servers) THEN ns.servers.items ELSE <<>>
    IN IF ns.servers.kind = "dicts" /\ items # <<>>
       THEN Raise(ns, "TypeError")
       ELSE Return([ns EXCEPT !.servers =
                DictsVal([i \in 1..Len(items) |->
                            IF inet_aton(items[i])
                            THEN [IpAddress |-> items[i]]
                            ELSE [Fqdn |-> items[i]]])])

Do_validate_servers == Call("validate_servers", validate_servers(namespace))

Parts == {Dec(5), Dec(256), Label}

ServerStrings == SeqsUpTo(Parts, MaxParts) \ {<<>>}

InitServers ==
    /\ namespace \in [servers : {NoneVal} \cup
                                {ListVal(q) : q \in SeqsUpTo(ServerStrings, MaxServers)}]
    /\ trace = <<>>
    /\ files = NoFiles

NextServers == Do_validate_servers

SpecServers == InitServers /\ [][NextServers]_vars

\* four decimal numbers, each at most 255
DottedQuad(item) ==
    /\ Len(item) = 4
    /\ \A i \in 1..4 : item[i].kind = "dec" /\ item[i].n <= 255

\* C9: validate_servers on a list of server strings never fails and leaves a list of
\* the same length and order whose i-th element is {'IpAddress': s_i} exactly when
\* s_i is a valid dotted-quad IPv4 literal and {'Fqdn': s_i} otherwise; an empty or
\* absent input gives the empty list.
C9_Claim ==
    \A k \in 1..Len(trace) :
        LET c == trace[k]
            items == IF c.before.servers.kind = "none" THEN <<>>
                     ELSE c.before.servers.items
        IN (c.op = "validate_servers" /\ c.before.servers.kind # "dicts") =>
           /\ c.exc = "ok"
           /\ Len(c.after.servers.items) = Len(items)
           /\ \A i \in 1..Len(items) :
                 c.after.servers.items[i] =
                    IF DottedQuad(items[i])
                    THEN [IpAddress |-> items[i]]
                    ELSE [Fqdn |-> items[i]]

====
